---- MODULE Spec2Model ----
(***************************************************************************)
(* The offer feed store of rebuy-marketplace (OffersStore): pagination     *)
(* through an rxResource keyed on currentPage, optimistic voting with      *)
(* rollback, and persistence of the user's votes in localStorage.          *)
(*                                                                         *)
(* The store talks to an offers data source (OffersApiService in the app,  *)
(* mocks in the store's tests).  Here the data source is any object with   *)
(* that interface: a page fetch answers with some page or fails, a vote    *)
(* update answers or fails, at once or later.                              *)
(***************************************************************************)
EXTENDS Integers, Sequences, FiniteSets, TLC

\* ------------------------------------------------------------------ bounds

\* Offer ids the data source knows; an id is unique among the offers it serves.
Ids == {"a", "b"}

\* Vote totals the data source may report for an offer it serves.
FetchedVotes == {0, 1}

\* Messages of the errors a page fetch may fail with.
Messages == {"Network error"}

\* Largest value of the pagination cursor that is explored.
MaxPage == 2

\* Largest number of offers in one page response that is explored.
MaxPageLen == 1

\* Largest number of upvote()/downvote() calls that is explored.
MaxVoteCalls == 2

\* ------------------------------------------------------- program constants

pageSize == 10

STORAGE_KEY == "rebuy_user_votes"

\* ------------------------------------------------------------------- state

VARIABLES
    currentPage,        \* signal(0): the pagination cursor
    accumulatedOffers,  \* signal<Offer[]>: sequence of [id, votes]
    userVotesSignal,    \* signal<UserVote[]>: sequence of [offerId, voteType]
    offersResource,     \* the rxResource: [status, value, error]
    localStorage,       \* key -> stored string (a sequence of JSON tokens)
    pendingVotes,       \* updateVote subscriptions that have not answered yet
    getOffersLog,       \* arguments of every apiService.getOffers call so far
    updateVoteCalls,    \* number of apiService.updateVote calls so far
    lastOp,             \* the operation or callback that ran last, and how it ended
    lastVote,           \* what the last upvote()/downvote() call did and saw
    history,            \* per offer id: its votes when merged, whether voted on before
    \* OffersApiService, the data source of the app, and what it reads
    fixture,            \* the Offer[] that GET /api/offers.json delivers
    allOffers,          \* #allOffers: null, or [kind, offers] with the Offer[] delivered last
    votesCache,         \* #votesCache: offer id -> vote total
    httpPending,        \* requests of direct callers of the service, in flight
    lastResponse,       \* what the service emitted or returned last
    \* OfferDetailsPageComponent
    routeId,            \* id = input.required<string>(): the route parameter
    showPurchaseModal,  \* signal<boolean>(false)
    purchaseSuccess,    \* signal<boolean>(false)
    timers,             \* setTimeout callbacks not yet run: [due]
    now,                \* the clock, in steps of 1000 ms
    navigateLog         \* router.navigate calls so far: [commands, at]

storeVars == <<currentPage, accumulatedOffers, userVotesSignal, offersResource,
               localStorage, pendingVotes, getOffersLog, updateVoteCalls, lastOp,
               lastVote, history>>

apiVars == <<fixture, allOffers, votesCache, httpPending, lastResponse>>

pageVars == <<routeId, showPurchaseModal, purchaseSuccess, timers, now, navigateLog>>

vars == <<storeVars, apiVars, pageVars>>

\* ------------------------------------------------------------ JSON strings

\* A stored string is the sequence of its JSON tokens.
Punct(c) == [t |-> "punct", v |-> c]
Str(s) == [t |-> "string", v |-> s]
Num(n) == [t |-> "number", v |-> ToString(n)]

\* JSON.stringify of one UserVote: {"offerId":"..","voteType":n}
StringifyVote(v) ==
    << Punct("{"), Str("offerId"), Punct(":"), Str(v.offerId), Punct(","),
       Str("voteType"), Punct(":"), Num(v.voteType), Punct("}") >>

RECURSIVE StringifyItems(_)
StringifyItems(votes) ==
    IF votes = << >> THEN << >>
    ELSE IF Len(votes) = 1 THEN StringifyVote(votes[1])
    ELSE StringifyVote(votes[1]) \o << Punct(",") >> \o StringifyItems(Tail(votes))

\* JSON.stringify of a UserVote[]
JsonStringify(votes) == << Punct("[") >> \o StringifyItems(votes) \o << Punct("]") >>

ParseNumber(tok) == CHOOSE n \in -1 .. 1 : ToString(n) = tok.v

\* The object whose nine tokens start at position i.
ParseVote(toks, i) == [offerId |-> toks[i + 3].v, voteType |-> ParseNumber(toks[i + 7])]

RECURSIVE ParseItems(_, _)
ParseItems(toks, i) ==
    IF toks[i] = Punct("]") THEN << >>
    ELSE IF toks[i] = Punct(",") THEN ParseItems(toks, i + 1)
    ELSE << ParseVote(toks, i) >> \o ParseItems(toks, i + 9)

\* JSON.parse of a string written by JsonStringify
JsonParse(toks) == ParseItems(toks, 2)

\* localStorage.getItem: the stored string, or null for a key never set
NullItem == << >>
getItem(key) == IF key \in DOMAIN localStorage THEN localStorage[key] ELSE NullItem

\* localStorage after setItem(key, value)
setItem(key, value) == [k \in (DOMAIN localStorage) \cup {key} |->
                            IF k = key THEN value ELSE localStorage[k]]

\* saveUserVotes that writes nothing
saveUserVotesNothing(votes) == localStorage

\* OffersStore.saveUserVotes: localStorage after the save of the given UserVote[]
saveUserVotes(votes) == setItem(STORAGE_KEY, JsonStringify(votes))

\* loadUserVotesFrom that ignores what is stored
loadUserVotesFromNothing(stored) == << >>

\* OffersStore.loadUserVotes, reading the given storage
loadUserVotesFrom(stored) == IF stored # NullItem THEN JsonParse(stored) ELSE << >>

\* ------------------------------------------------------------ pure helpers

undefined == [kind |-> "undefined"]
null == [kind |-> "null"]

\* An Offer as the data source serves it; title stands for the descriptive fields.
Offer(id, votes) == [id |-> id, votes |-> votes, title |-> <<"title of", id>>]

\* Array.prototype.find: index of the first offer with this id, 0 if there is none
findOffer(offers, id) ==
    IF \E i \in 1 .. Len(offers) : offers[i].id = id
    THEN CHOOSE i \in 1 .. Len(offers) :
            /\ offers[i].id = id
            /\ \A j \in 1 .. (i - 1) : offers[j].id # id
    ELSE 0

\* Array.prototype.find: index of the first vote for this offer, 0 if there is none
findVote(votes, offerId) ==
    IF \E i \in 1 .. Len(votes) : votes[i].offerId = offerId
    THEN CHOOSE i \in 1 .. Len(votes) :
            /\ votes[i].offerId = offerId
            /\ \A j \in 1 .. (i - 1) : votes[j].offerId # offerId
    ELSE 0

\* compareVotes with its operands swapped: an ascending sort
compareVotesAscending(a, b) == a.votes - b.votes

\* The comparator of the sorted view: (a, b) => b.votes - a.votes
compareVotes(a, b) == b.votes - a.votes

\* Array.prototype.sort is stable: an element goes before the first element the
\* comparator orders strictly after it, and after every element it ties with.
RECURSIVE insertSorted(_, _)
insertSorted(sorted, x) ==
    IF sorted = << >> THEN << x >>
    ELSE IF compareVotes(sorted[1], x) <= 0
         THEN << sorted[1] >> \o insertSorted(Tail(sorted), x)
         ELSE << x >> \o sorted

RECURSIVE sortOffers(_)
sortOffers(list) ==
    IF list = << >> THEN << >>
    ELSE insertSorted(sortOffers(SubSeq(list, 1, Len(list) - 1)), list[Len(list)])

\* ---------------------------------------------------------- computed views

\* OffersStore.offers
offers == sortOffers(accumulatedOffers)

\* loading that also counts the vote reconciliations that are pending
loadingOrReconciling == offersResource.status = "loading" \/ pendingVotes # {}

\* OffersStore.loading
loading == offersResource.status = "loading"

\* error that never reports a failure
errorNever == null

\* OffersStore.error: error()?.message ?? null
error ==
    IF offersResource.error = null THEN null
    ELSE [kind |-> "string", value |-> offersResource.error.message]

\* Reading value() of a resource in the error state throws (Angular 20 and later).
valueThrows == offersResource.status = "error"

\* hasMore that never looks at the page
hasMoreAlways == TRUE

\* OffersStore.hasMore, where reading it does not throw: value()?.hasMore ?? true
hasMore == IF offersResource.value = undefined THEN TRUE ELSE offersResource.value.hasMore

\* OffersStore.userVotes
userVotes == userVotesSignal

\* getOfferById that returns the first accumulated offer, whatever its id
getOfferByIdFirst(id) ==
    IF accumulatedOffers = << >> THEN undefined ELSE accumulatedOffers[1]

\* OffersStore.getOfferById
getOfferById(id) ==
    LET i == findOffer(accumulatedOffers, id)
    IN  IF i = 0 THEN undefined ELSE accumulatedOffers[i]

\* OffersStore.getUserVote, on a given UserVote[]
userVoteIn(votes, offerId) ==
    LET i == findVote(votes, offerId)
    IN  IF i = 0 THEN 0 ELSE votes[i].voteType

\* OffersStore.getUserVote
getUserVote(offerId) == userVoteIn(userVotesSignal, offerId)

\* ------------------------------------------------------- private mutators

\* addUserVote that records nothing
addUserVoteNothing(votes, offerId, voteType) == votes

\* OffersStore.addUserVote
addUserVote(votes, offerId, voteType) ==
    Append(votes, [offerId |-> offerId, voteType |-> voteType])

\* updateUserVote that adds a second entry instead of replacing the first
updateUserVoteAppends(votes, offerId, voteType) ==
    Append(votes, [offerId |-> offerId, voteType |-> voteType])

\* OffersStore.updateUserVote
updateUserVote(votes, offerId, voteType) ==
    [i \in DOMAIN votes |->
        IF votes[i].offerId = offerId
        THEN [votes[i] EXCEPT !.voteType = voteType]
        ELSE votes[i]]

keepOthers(offerId, v) == v.offerId # offerId

\* removeVote that removes nothing
removeVoteNothing(votes, offerId) == votes

\* OffersStore.removeVote
removeVote(votes, offerId) == SelectSeq(votes, LAMBDA v : keepOthers(offerId, v))

\* changeVotes that leaves every offer as it is
changeVotesNothing(list, offerId, change) == list

\* The map in OffersStore.updateOfferVotes: votes + change on every offer with this id
changeVotes(list, offerId, change) ==
    [i \in DOMAIN list |->
        IF list[i].id = offerId
        THEN [list[i] EXCEPT !.votes = list[i].votes + change]
        ELSE list[i]]

\* rollback that leaves the optimistic votes in place
rollbackNothing(list, offerId, change) == list

\* The map in the error callback of updateOfferVotes: votes - change
rollback(list, offerId, change) == changeVotes(list, offerId, -change)

\* tapAccumulate that replaces the accumulated offers by the page
tapReplace(list, responseOffers) == responseOffers

\* The tap of the resource's stream: [...offers, ...response.offers]
tapAccumulate(list, responseOffers) == list \o responseOffers

\* upvotePlan where switching from a downvote counts +1 instead of +2
upvotePlanSwitchByOne(votes, offerId) ==
    LET current == userVoteIn(votes, offerId)
    IN  IF current = 1
        THEN [userVotes |-> removeVote(votes, offerId), change |-> -1]
        ELSE IF current = -1
        THEN [userVotes |-> updateUserVote(votes, offerId, 1), change |-> 1]
        ELSE [userVotes |-> addUserVote(votes, offerId, 1), change |-> 1]

\* The branch OffersStore.upvote takes: the new UserVote[] and the change it passes on
upvotePlan(votes, offerId) ==
    LET current == userVoteIn(votes, offerId)
    IN  IF current = 1
        THEN [userVotes |-> removeVote(votes, offerId), change |-> -1]
        ELSE IF current = -1
        THEN [userVotes |-> updateUserVote(votes, offerId, 1), change |-> 2]
        ELSE [userVotes |-> addUserVote(votes, offerId, 1), change |-> 1]

\* downvotePlan whose switch from an upvote takes 1 off instead of 2
downvotePlanSwitchByOne(votes, offerId) ==
    LET current == userVoteIn(votes, offerId)
    IN  IF current = -1
        THEN [userVotes |-> removeVote(votes, offerId), change |-> 1]
        ELSE IF current = 1
        THEN [userVotes |-> updateUserVote(votes, offerId, -1), change |-> -1]
        ELSE [userVotes |-> addUserVote(votes, offerId, -1), change |-> -1]

\* The branch OffersStore.downvote takes
downvotePlan(votes, offerId) ==
    LET current == userVoteIn(votes, offerId)
    IN  IF current = -1
        THEN [userVotes |-> removeVote(votes, offerId), change |-> 1]
        ELSE IF current = 1
        THEN [userVotes |-> updateUserVote(votes, offerId, -1), change |-> -2]
        ELSE [userVotes |-> addUserVote(votes, offerId, -1), change |-> -1]

\* streamCall that asks for the page after the cursor's
streamCallNextPage(page) == [page |-> page + 1, pageSize |-> pageSize]

\* The arguments the resource's stream passes to apiService.getOffers
streamCall(page) == [page |-> page, pageSize |-> pageSize]

\* The resource while its stream has not answered: no value, no error
resourceLoading == [status |-> "loading", value |-> undefined, error |-> null]

\* What a reader sees of one offer's tally: getOfferById(id)?.votes
tallyIn(list, id) ==
    LET i == findOffer(list, id)
    IN  IF i = 0 THEN [loaded |-> FALSE, votes |-> 0]
        ELSE [loaded |-> TRUE, votes |-> list[i].votes]

tally(id) == tallyIn(accumulatedOffers, id)

\* ----------------------------------------------------------- the data source

\* The pages a fetch may answer with: up to MaxPageLen offers, with distinct ids
\* that no earlier page served.
PageOffers ==
    LET fresh == Ids \ {accumulatedOffers[i].id : i \in 1 .. Len(accumulatedOffers)}
        candidates == UNION {[1 .. n -> {Offer(id, v) : id \in fresh, v \in FetchedVotes}] :
                                n \in 0 .. MaxPageLen}
    IN  {page \in candidates :
            \A i, j \in 1 .. Len(page) : i # j => page[i].id # page[j].id}

\* How the observable of updateVote behaves once subscribed: it answers later, or
\* it emits or fails during the subscribe call itself (of(...), throwError(...)).
VoteModes == {"later", "next", "error"}

\* ------------------------------------------------------------------ actions

NoVote ==
    [n |-> 0, name |-> "none", offerId |-> "", change |-> 0, voteType |-> 0,
     before |-> [loaded |-> FALSE, votes |-> 0],
     atDispatch |-> [tally |-> [loaded |-> FALSE, votes |-> 0], userVote |-> 0,
                     slot |-> NullItem],
     outcome |-> "none", quiet |-> TRUE,
     run |-> [first |-> 0, base |-> [loaded |-> FALSE, votes |-> 0], kept |-> 0,
              clean |-> TRUE, overlap |-> FALSE]]

Op(name, arg, outcome) == [name |-> name, arg |-> arg, outcome |-> outcome]

\* The store is run against a data source that is not OffersApiService (a mock, as
\* in the store's tests): the service's fields stay as constructed.
noService ==
    /\ fixture = << >>
    /\ allOffers = null
    /\ votesCache = [k \in {} |-> 0]
    /\ httpPending = {}
    /\ lastResponse = [op |-> "none"]

\* No OfferDetailsPageComponent is on screen
noPage ==
    /\ routeId = ""
    /\ showPurchaseModal = FALSE
    /\ purchaseSuccess = FALSE
    /\ timers = {}
    /\ now = 0
    /\ navigateLog = << >>

\* Nothing is kept of what was merged and voted on
noHistory == history = [mergedVotes |-> [k \in {} |-> 0], votedAbsent |-> {}]

\* The step is one of the store alone
storeOnly == UNCHANGED <<apiVars, pageVars, history>>

\* Field initialisers of OffersStore, on a device whose localStorage is empty
Init ==
    /\ localStorage = [k \in {} |-> NullItem]
    /\ updateVoteCalls = 0
    /\ currentPage = 0
    /\ accumulatedOffers = << >>
    /\ userVotesSignal = loadUserVotesFrom(getItem(STORAGE_KEY))
    /\ offersResource = resourceLoading
    /\ getOffersLog = << streamCall(0) >>
    /\ pendingVotes = {}
    /\ lastOp = Op("constructor", "", "first")
    /\ lastVote = NoVote
    /\ noService
    /\ noPage
    /\ noHistory

\* Field initialisers of a later OffersStore instance over the same localStorage
\* (the page is opened again); the subscriptions of the old instance are gone.
NewStore ==
    /\ currentPage' = 0
    /\ accumulatedOffers' = << >>
    /\ userVotesSignal' = loadUserVotesFrom(getItem(STORAGE_KEY))
    /\ offersResource' = resourceLoading
    /\ getOffersLog' = << streamCall(0) >>
    /\ pendingVotes' = {}
    /\ lastOp' = Op("constructor", "", "again")
    /\ lastVote' = NoVote
    /\ UNCHANGED <<localStorage, updateVoteCalls>>

\* loadNextPageOutcome without the !loading() test
loadNextPageOutcomeNoLoadingTest ==
    IF valueThrows THEN "threw"
    ELSE IF ~hasMore THEN "no-op"
    ELSE "advanced"

\* How the condition of loadNextPage, !loading() && hasMore(), comes out: loading()
\* short-circuits it; otherwise hasMore() is read, which throws in the error state.
loadNextPageOutcome ==
    IF loading THEN "no-op"
    ELSE IF valueThrows THEN "threw"
    ELSE IF ~hasMore THEN "no-op"
    ELSE "advanced"

\* loadNextPage that moves the cursor by two pages
loadNextPageSkips ==
    /\ UNCHANGED <<accumulatedOffers, userVotesSignal, localStorage, pendingVotes,
                   updateVoteCalls, lastVote>>
    /\ lastOp' = Op("loadNextPage", "", loadNextPageOutcome)
    /\ IF loadNextPageOutcome = "advanced"
       THEN /\ currentPage < MaxPage
            /\ currentPage' = currentPage + 2
            /\ offersResource' = resourceLoading
            /\ getOffersLog' = Append(getOffersLog, streamCall(currentPage'))
       ELSE UNCHANGED <<currentPage, offersResource, getOffersLog>>

\* OffersStore.loadNextPage
loadNextPage ==
    /\ UNCHANGED <<accumulatedOffers, userVotesSignal, localStorage, pendingVotes,
                   updateVoteCalls, lastVote>>
    /\ lastOp' = Op("loadNextPage", "", loadNextPageOutcome)
    /\ IF loadNextPageOutcome = "advanced"
       THEN /\ currentPage < MaxPage
            /\ currentPage' = currentPage + 1
            /\ offersResource' = resourceLoading
            /\ getOffersLog' = Append(getOffersLog, streamCall(currentPage'))
       ELSE UNCHANGED <<currentPage, offersResource, getOffersLog>>

\* The stream emits a page: the tap appends it, the resource resolves
getOffersNext ==
    /\ loading
    /\ \E page \in PageOffers, more \in BOOLEAN :
        /\ accumulatedOffers' = tapAccumulate(accumulatedOffers, page)
        /\ offersResource' = [status |-> "resolved",
                              value |-> [kind |-> "response", hasMore |-> more],
                              error |-> null]
    /\ lastOp' = Op("getOffers", "", "next")
    /\ UNCHANGED <<currentPage, userVotesSignal, localStorage, pendingVotes,
                   getOffersLog, updateVoteCalls, lastVote>>

\* getOffersError that also drops the offers accumulated so far
getOffersErrorClears ==
    /\ loading
    /\ \E msg \in Messages :
        offersResource' = [status |-> "error", value |-> undefined,
                           error |-> [kind |-> "Error", message |-> msg]]
    /\ accumulatedOffers' = << >>
    /\ lastOp' = Op("getOffers", "", "error")
    /\ UNCHANGED <<currentPage, userVotesSignal, localStorage,
                   pendingVotes, getOffersLog, updateVoteCalls, lastVote>>

\* The stream fails: the resource goes to its error state
getOffersError ==
    /\ loading
    /\ \E msg \in Messages :
        offersResource' = [status |-> "error", value |-> undefined,
                           error |-> [kind |-> "Error", message |-> msg]]
    /\ lastOp' = Op("getOffers", "", "error")
    /\ UNCHANGED <<currentPage, accumulatedOffers, userVotesSignal, localStorage,
                   pendingVotes, getOffersLog, updateVoteCalls, lastVote>>

\* The record of the run of vote calls the call n on offerId belongs to. A run is
\* a sequence of consecutive vote calls of one store instance on one offer that was
\* loaded when the first of them was made: first is the number of that call, base
\* the offer's tally before it, kept the sum of the changes of the calls of the run
\* whose updateVote has not failed, overlap whether two of them were pending at
\* once; clean says that no call on the offer from before the run has failed since.
runAfterCall(n, offerId, change, mode) ==
    LET run == lastVote.run
        kept == IF mode = "error" THEN 0 ELSE change
    IN  IF lastVote.offerId = offerId /\ run.base.loaded
        THEN [run EXCEPT
                !.kept = @ + kept,
                !.overlap = @ \/ (mode = "later" /\
                                    \E p \in pendingVotes :
                                        p.offerId = offerId /\ p.n >= run.first)]
        ELSE [first |-> n, base |-> tally(offerId), kept |-> kept,
              clean |-> TRUE, overlap |-> FALSE]

\* The record of the run once call p has been answered
runAfterAnswer(p, outcome) ==
    LET run == lastVote.run
    IN  IF outcome # "error" \/ p.offerId # lastVote.offerId THEN run
        ELSE IF p.n >= run.first THEN [run EXCEPT !.kept = @ - p.change]
        ELSE [run EXCEPT !.clean = FALSE]

\* OffersStore.upvote / OffersStore.downvote with the branch already taken:
\* the UserVote[] update, then updateOfferVotes (optimistic map, updateVote call,
\* subscribe), then saveUserVotes.
castVote(name, offerId, plan, mode) ==
    LET change == plan.change
        optimistic == changeVotes(accumulatedOffers, offerId, change)
        rolledBack == rollback(optimistic, offerId, change)
        n == updateVoteCalls + 1
    IN  /\ updateVoteCalls < MaxVoteCalls
        /\ userVotesSignal' = plan.userVotes
        /\ updateVoteCalls' = n
        /\ accumulatedOffers' = IF mode = "error" THEN rolledBack ELSE optimistic
        /\ pendingVotes' =
                IF mode = "later"
                THEN pendingVotes \cup {[n |-> n, offerId |-> offerId, change |-> change]}
                ELSE pendingVotes
        /\ localStorage' = saveUserVotes(plan.userVotes)
        /\ lastOp' = Op(name, offerId, "returned")
        /\ lastVote' =
                [n |-> n, name |-> name, offerId |-> offerId, change |-> change,
                 voteType |-> userVoteIn(plan.userVotes, offerId),
                 before |-> tally(offerId),
                 atDispatch |-> [tally |-> tallyIn(optimistic, offerId),
                                 userVote |-> userVoteIn(plan.userVotes, offerId),
                                 slot |-> getItem(STORAGE_KEY)],
                 outcome |-> mode, quiet |-> TRUE,
                 run |-> runAfterCall(n, offerId, change, mode)]
        /\ UNCHANGED <<currentPage, offersResource, getOffersLog>>

\* OffersStore.upvote
upvote ==
    \E offerId \in Ids, mode \in VoteModes :
        castVote("upvote", offerId, upvotePlan(userVotesSignal, offerId), mode)

\* downvote that takes one vote off whatever the recorded vote is
downvoteAlwaysOneOff ==
    \E offerId \in Ids, mode \in VoteModes :
        castVote("downvote", offerId,
                 [downvotePlan(userVotesSignal, offerId) EXCEPT !.change = -1], mode)

\* OffersStore.downvote
downvote ==
    \E offerId \in Ids, mode \in VoteModes :
        castVote("downvote", offerId, downvotePlan(userVotesSignal, offerId), mode)

\* What a later answer to call p means for the record of the last vote call
settle(p, outcome) ==
    LET answered ==
            IF p.n = lastVote.n THEN [lastVote EXCEPT !.outcome = outcome]
            ELSE IF outcome = "error" /\ p.offerId = lastVote.offerId
                 THEN [lastVote EXCEPT !.quiet = FALSE]
                 ELSE lastVote
    IN  [answered EXCEPT !.run = runAfterAnswer(p, outcome)]

\* updateVoteNext that takes the votes of the offer from the answer
updateVoteNextApplies ==
    \E p \in pendingVotes, total \in FetchedVotes :
        /\ pendingVotes' = pendingVotes \ {p}
        /\ accumulatedOffers' =
                [i \in DOMAIN accumulatedOffers |->
                    IF accumulatedOffers[i].id = p.offerId
                    THEN [accumulatedOffers[i] EXCEPT !.votes = total]
                    ELSE accumulatedOffers[i]]
        /\ lastOp' = Op("updateVote", p.offerId, "next")
        /\ lastVote' = settle(p, "next")
        /\ UNCHANGED <<currentPage, userVotesSignal, offersResource,
                       localStorage, getOffersLog, updateVoteCalls>>

\* The next callback of an updateVote subscription: console.log only
updateVoteNext ==
    \E p \in pendingVotes :
        /\ pendingVotes' = pendingVotes \ {p}
        /\ lastOp' = Op("updateVote", p.offerId, "next")
        /\ lastVote' = settle(p, "next")
        /\ UNCHANGED <<currentPage, accumulatedOffers, userVotesSignal, offersResource,
                       localStorage, getOffersLog, updateVoteCalls>>

\* updateVoteError that takes back the changes of all the pending calls on the
\* offer at once (batching)
updateVoteErrorBatched ==
    \E p \in pendingVotes :
        LET RECURSIVE sum(_)
            sum(ps) == IF ps = {} THEN 0
                       ELSE LET q == CHOOSE q \in ps : TRUE
                            IN  q.change + sum(ps \ {q})
            batch == {q \in pendingVotes : q.offerId = p.offerId}
        IN  /\ pendingVotes' = pendingVotes \ {p}
            /\ accumulatedOffers' = rollback(accumulatedOffers, p.offerId, sum(batch))
            /\ lastOp' = Op("updateVote", p.offerId, "error")
            /\ lastVote' = settle(p, "error")
            /\ UNCHANGED <<currentPage, userVotesSignal, offersResource, localStorage,
                           getOffersLog, updateVoteCalls>>

\* The error callback of an updateVote subscription: the rollback
updateVoteError ==
    \E p \in pendingVotes :
        /\ pendingVotes' = pendingVotes \ {p}
        /\ accumulatedOffers' = rollback(accumulatedOffers, p.offerId, p.change)
        /\ lastOp' = Op("updateVote", p.offerId, "error")
        /\ lastVote' = settle(p, "error")
        /\ UNCHANGED <<currentPage, userVotesSignal, offersResource, localStorage,
                       getOffersLog, updateVoteCalls>>

Next ==
    \/ loadNextPage /\ storeOnly
    \/ getOffersNext /\ storeOnly
    \/ getOffersError /\ storeOnly
    \/ upvote /\ storeOnly
    \/ downvote /\ storeOnly
    \/ updateVoteNext /\ storeOnly
    \/ updateVoteError /\ storeOnly
    \/ NewStore /\ storeOnly

Spec == Init /\ [][Next]_vars

\* ------------------------------------------- a store over a slot left by others

\* Whether nine tokens starting at position i are a {"offerId":"..","voteType":n}
isVoteObject(toks, i) ==
    /\ i + 8 <= Len(toks)
    /\ toks[i] = Punct("{")
    /\ toks[i + 1] = Str("offerId")
    /\ toks[i + 2] = Punct(":")
    /\ toks[i + 3].t = "string"
    /\ toks[i + 4] = Punct(",")
    /\ toks[i + 5] = Str("voteType")
    /\ toks[i + 6] = Punct(":")
    /\ toks[i + 7].t = "number"
    /\ toks[i + 8] = Punct("}")

RECURSIVE isItems(_, _)
isItems(toks, i) ==
    /\ isVoteObject(toks, i)
    /\ \/ i + 9 = Len(toks) /\ toks[i + 9] = Punct("]")
       \/ i + 9 < Len(toks) /\ toks[i + 9] = Punct(",") /\ isItems(toks, i + 10)

\* Whether JSON.parse accepts the string, among the strings of StoredStrings: an
\* array of vote objects cut short is not JSON, and JSON.parse throws a SyntaxError.
jsonParses(toks) ==
    /\ Len(toks) >= 2
    /\ toks[1] = Punct("[")
    /\ \/ toks = << Punct("["), Punct("]") >>
       \/ isItems(toks, 2)

\* What the slot may hold when a store is constructed over it: arrays of votes as
\* the store writes them, and such arrays cut short (a write that did not finish,
\* another writer of the same key).
StoredStrings ==
    LET one == JsonStringify(<< [offerId |-> "a", voteType |-> 1] >>)
    IN  { JsonStringify(<< >>), one,
          SubSeq(one, 1, 1), SubSeq(one, 1, 5), SubSeq(one, 1, Len(one) - 1) }

\* Whether the field initialiser of userVotesSignal throws over this stored value:
\* loadUserVotes calls JSON.parse on every truthy value, with no try/catch.
loadUserVotesThrows(stored) == stored # NullItem /\ ~jsonParses(stored)

\* Whether the constructor has returned a store
storeExists == lastOp # Op("constructor", "", "threw")

\* Field initialisers of OffersStore over a slot that is missing or holds any of
\* StoredStrings: when loadUserVotes throws, the constructor throws before the
\* resource is created, and there is no store.
InitStored ==
    /\ localStorage \in
            {[k \in {} |-> NullItem]} \cup
            {[k \in {STORAGE_KEY} |-> stored] : stored \in StoredStrings}
    /\ updateVoteCalls = 0
    /\ currentPage = 0
    /\ accumulatedOffers = << >>
    /\ pendingVotes = {}
    /\ lastVote = NoVote
    /\ IF loadUserVotesThrows(getItem(STORAGE_KEY))
       THEN /\ userVotesSignal = << >>
            /\ offersResource = [status |-> "none", value |-> undefined, error |-> null]
            /\ getOffersLog = << >>
            /\ lastOp = Op("constructor", "", "threw")
       ELSE /\ userVotesSignal = loadUserVotesFrom(getItem(STORAGE_KEY))
            /\ offersResource = resourceLoading
            /\ getOffersLog = << streamCall(0) >>
            /\ lastOp = Op("constructor", "", "first")
    /\ noService
    /\ noPage
    /\ noHistory

\* The operations of a store that exists
NextStored ==
    \/ storeExists /\ loadNextPage /\ storeOnly
    \/ storeExists /\ getOffersNext /\ storeOnly
    \/ storeExists /\ getOffersError /\ storeOnly
    \/ storeExists /\ upvote /\ storeOnly
    \/ storeExists /\ downvote /\ storeOnly
    \/ storeExists /\ updateVoteNext /\ storeOnly
    \/ storeExists /\ updateVoteError /\ storeOnly
    \/ storeExists /\ NewStore /\ storeOnly

SpecStored == InitStored /\ [][NextStored]_vars

\* ------------------------------------------------ a store whose offers are looked up

\* A caller calls OffersStore.getOfferById and gets an offer or undefined
getOfferByIdCall ==
    /\ \E id \in Ids :
        lastOp' = Op("getOfferById", id,
                     IF getOfferById(id) = undefined THEN "undefined" ELSE "found")
    /\ UNCHANGED <<currentPage, accumulatedOffers, userVotesSignal, offersResource,
                   localStorage, pendingVotes, getOffersLog, updateVoteCalls, lastVote>>

NextLookup ==
    \/ loadNextPage /\ storeOnly
    \/ getOffersNext /\ storeOnly
    \/ getOffersError /\ storeOnly
    \/ upvote /\ storeOnly
    \/ downvote /\ storeOnly
    \/ updateVoteNext /\ storeOnly
    \/ updateVoteError /\ storeOnly
    \/ NewStore /\ storeOnly
    \/ getOfferByIdCall /\ storeOnly

SpecLookup == Init /\ [][NextLookup]_vars

\* ------------------------------------------------- OffersApiService on its own

\* Ids of the offers in /api/offers.json, in file order
FixtureIds ==
    << "a", "b", "c", "d", "e", "f", "g", "h", "i", "j", "k",
       "l", "m", "n", "o", "p", "q", "r", "s", "t", "u", "v" >>

\* The file with n offers; v shifts their votes
fixtureOf(n, v) == [i \in 1 .. n |-> Offer(FixtureIds[i], (i + v) % 2)]

\* slice that takes the element at end as well
sliceInclusive(array, start, end) ==
    LET last == IF end + 1 < Len(array) THEN end + 1 ELSE Len(array)
    IN  IF start >= last THEN << >> ELSE SubSeq(array, start + 1, last)

\* Array.prototype.slice(start, end) for 0 <= start <= end
slice(array, start, end) ==
    LET last == IF end < Len(array) THEN end ELSE Len(array)
    IN  IF start >= last THEN << >> ELSE SubSeq(array, start + 1, last)

\* cachedVotes that does not look into the cache
cachedVotesIgnored(cache, offer) == offer.votes

\* this.#votesCache.get(offer.id) ?? offer.votes
cachedVotes(cache, offer) ==
    IF offer.id \in DOMAIN cache THEN cache[offer.id] ELSE offer.votes

\* What the map of OffersApiService.getOffers makes of the delivered file
getOffersResponse(delivered, cache, page, size) ==
    LET offersWithVotes ==
            [i \in 1 .. Len(delivered) |->
                [delivered[i] EXCEPT !.votes = cachedVotes(cache, delivered[i])]]
        start == page * size
        end == start + size
    IN  [offers |-> slice(offersWithVotes, start, end),
         total |-> Len(delivered),
         page |-> page,
         pageSize |-> size,
         hasMore |-> end < Len(delivered)]

\* What the map of OffersApiService.getOfferById makes of the delivered file
getOfferByIdResponse(delivered, cache, offerId) ==
    LET i == findOffer(delivered, offerId)
    IN  IF i = 0 THEN null
        ELSE IF offerId \in DOMAIN cache
             THEN [delivered[i] EXCEPT !.votes = cache[offerId]]
             ELSE delivered[i]

\* currentVotes that starts from the file's votes every time
currentVotesFromFile(cache, known, offerId) ==
    IF known = null THEN 0
    ELSE IF findOffer(known.offers, offerId) = 0 THEN 0
    ELSE known.offers[findOffer(known.offers, offerId)].votes

\* currentVotes of OffersApiService.updateVote:
\* #votesCache.get(offerId) ?? #allOffers?.find(o => o.id === offerId)?.votes ?? 0
currentVotes(cache, known, offerId) ==
    IF offerId \in DOMAIN cache THEN cache[offerId]
    ELSE IF known = null THEN 0
    ELSE IF findOffer(known.offers, offerId) = 0 THEN 0
    ELSE known.offers[findOffer(known.offers, offerId)].votes

\* #votesCache.set(offerId, newVotes)
cacheSet(cache, offerId, newVotes) ==
    [k \in DOMAIN cache \cup {offerId} |-> IF k = offerId THEN newVotes ELSE cache[k]]

\* Sizes of the files that are explored
FixtureSizes == {0, 1, 2, 3}

\* Page sizes and page indices direct callers ask for
ApiPageSizes == {1, 2, 10}

MaxApiPage == 3

\* Ids and changes direct callers pass to updateVote; "zz" is in no file
ApiVoteIds == {"a", "b", "zz"}

VoteChanges == {1, -1, 2}

\* Largest number of requests in flight at once that is explored
MaxRequests == 1

\* There is no OffersStore
noStore ==
    /\ currentPage = 0
    /\ accumulatedOffers = << >>
    /\ userVotesSignal = << >>
    /\ offersResource = [status |-> "none", value |-> undefined, error |-> null]
    /\ localStorage = [k \in {} |-> NullItem]
    /\ pendingVotes = {}
    /\ getOffersLog = << >>
    /\ updateVoteCalls = 0
    /\ lastOp = Op("none", "", "none")
    /\ lastVote = NoVote
    /\ noHistory

\* Field initialisers of OffersApiService, over some /api/offers.json
InitApi ==
    /\ fixture \in {fixtureOf(n, v) : n \in FixtureSizes, v \in FetchedVotes}
    /\ allOffers = null
    /\ votesCache = [k \in {} |-> 0]
    /\ httpPending = {}
    /\ lastResponse = [op |-> "none"]
    /\ noStore
    /\ noPage

\* A GET of /api/offers.json in flight, with the arguments of the call that sent it
Request(op, page, size, offerId) ==
    [op |-> op, page |-> page, pageSize |-> size, offerId |-> offerId]

\* A caller subscribes to OffersApiService.getOffers(page, pageSize): the GET is sent
serviceGetOffers ==
    /\ Cardinality(httpPending) < MaxRequests
    /\ \E page \in 0 .. MaxApiPage, size \in ApiPageSizes :
        httpPending' = httpPending \cup {Request("getOffers", page, size, "")}
    /\ UNCHANGED <<fixture, allOffers, votesCache, lastResponse, storeVars, pageVars>>

\* The GET of a getOffers call delivers the file: the map runs and the page is emitted
serviceGetOffersNext ==
    /\ \E r \in httpPending :
        /\ r.op = "getOffers"
        /\ httpPending' = httpPending \ {r}
        /\ allOffers' = [kind |-> "Offer[]", offers |-> fixture]
        /\ lastResponse' =
                [op |-> "getOffers", page |-> r.page, pageSize |-> r.pageSize,
                 value |-> getOffersResponse(fixture, votesCache, r.page, r.pageSize)]
    /\ UNCHANGED <<fixture, votesCache, storeVars, pageVars>>

\* A caller subscribes to OffersApiService.getOfferById(id)
serviceGetOfferById ==
    /\ Cardinality(httpPending) < MaxRequests
    /\ \E offerId \in ApiVoteIds :
        httpPending' = httpPending \cup {Request("getOfferById", 0, 0, offerId)}
    /\ UNCHANGED <<fixture, allOffers, votesCache, lastResponse, storeVars, pageVars>>

\* The GET of a getOfferById call delivers the file; #allOffers is not touched
serviceGetOfferByIdNext ==
    /\ \E r \in httpPending :
        /\ r.op = "getOfferById"
        /\ httpPending' = httpPending \ {r}
        /\ lastResponse' =
                [op |-> "getOfferById", offerId |-> r.offerId,
                 value |-> getOfferByIdResponse(fixture, votesCache, r.offerId)]
    /\ UNCHANGED <<fixture, allOffers, votesCache, storeVars, pageVars>>

\* A GET fails: the observable errors and the map does not run
serviceHttpError ==
    /\ \E r \in httpPending :
        /\ httpPending' = httpPending \ {r}
        /\ lastResponse' = [op |-> r.op, failed |-> TRUE]
    /\ UNCHANGED <<fixture, allOffers, votesCache, storeVars, pageVars>>

\* What updateVote(offerId, voteChange) does to the service, and what it returns
updateVoteOfService(offerId, voteChange) ==
    LET newVotes == currentVotes(votesCache, allOffers, offerId) + voteChange
    IN  /\ votesCache' = cacheSet(votesCache, offerId, newVotes)
        /\ lastResponse' =
                [op |-> "updateVote", offerId |-> offerId, voteChange |-> voteChange,
                 value |-> [votes |-> newVotes]]
        /\ UNCHANGED <<fixture, allOffers, httpPending>>

\* A caller calls OffersApiService.updateVote(offerId, voteChange)
serviceUpdateVote ==
    /\ updateVoteCalls < MaxVoteCalls
    /\ updateVoteCalls' = updateVoteCalls + 1
    /\ \E offerId \in ApiVoteIds, voteChange \in VoteChanges :
        updateVoteOfService(offerId, voteChange)
    /\ UNCHANGED <<currentPage, accumulatedOffers, userVotesSignal, offersResource,
                   localStorage, pendingVotes, getOffersLog, lastOp, lastVote, history,
                   pageVars>>

NextApi ==
    \/ serviceGetOffers
    \/ serviceGetOffersNext
    \/ serviceGetOfferById
    \/ serviceGetOfferByIdNext
    \/ serviceHttpError
    \/ serviceUpdateVote

SpecApi == InitApi /\ [][NextApi]_vars

\* ------------------------------------ a store whose reconciliations never fail

\* The step merges a page: the votes its offers come with are kept
noteMerge ==
    LET arrived == {i \in 1 .. Len(accumulatedOffers') : i > Len(accumulatedOffers)}
        first(offerId) == CHOOSE i \in arrived :
                            /\ accumulatedOffers'[i].id = offerId
                            /\ \A j \in arrived : accumulatedOffers'[j].id = offerId => i <= j
        known == DOMAIN history.mergedVotes
        new == {accumulatedOffers'[i].id : i \in arrived} \ known
    IN  history' = [history EXCEPT !.mergedVotes =
                        [k \in known \cup new |->
                            IF k \in known THEN history.mergedVotes[k]
                            ELSE accumulatedOffers'[first(k)].votes]]

\* The step is a vote call: whether the offer was absent is kept
noteVote ==
    history' = [history EXCEPT !.votedAbsent =
                    IF tally(lastOp'.arg).loaded THEN @ ELSE @ \cup {lastOp'.arg}]

\* The updateVote call of the vote call of this step did not fail
reconciled == lastVote'.outcome # "error"

NextNoFailure ==
    \/ loadNextPage /\ storeOnly
    \/ getOffersNext /\ noteMerge /\ UNCHANGED <<apiVars, pageVars>>
    \/ getOffersError /\ storeOnly
    \/ upvote /\ reconciled /\ noteVote /\ UNCHANGED <<apiVars, pageVars>>
    \/ downvote /\ reconciled /\ noteVote /\ UNCHANGED <<apiVars, pageVars>>
    \/ updateVoteNext /\ storeOnly

SpecNoFailure == Init /\ [][NextNoFailure]_vars

\* --------------------------------------- the store run against OffersApiService

\* Sizes of the files the store is run against: none, less than a page, exactly
\* one page, a page and one, exactly two pages
StoreFixtureSizes == {0, 1, 10, 11, 20}

\* Ids the user votes on: the first offer of page 0 and the first of page 1
FixtureVoteIds == {"a", "k"}

\* Field initialisers of OffersApiService and of an OffersStore that injects it
InitFixture ==
    /\ fixture \in {fixtureOf(n, v) : n \in StoreFixtureSizes, v \in FetchedVotes}
    /\ allOffers = null
    /\ votesCache = [k \in {} |-> 0]
    /\ httpPending = {}
    /\ lastResponse = [op |-> "none"]
    /\ localStorage = [k \in {} |-> NullItem]
    /\ updateVoteCalls = 0
    /\ currentPage = 0
    /\ accumulatedOffers = << >>
    /\ userVotesSignal = loadUserVotesFrom(getItem(STORAGE_KEY))
    /\ offersResource = resourceLoading
    /\ getOffersLog = << streamCall(0) >>
    /\ pendingVotes = {}
    /\ lastOp = Op("constructor", "", "first")
    /\ lastVote = NoVote
    /\ noPage
    /\ noHistory

\* The GET of the resource's getOffers call delivers the file: the map of the
\* service runs, the tap of the store appends the page, the resource resolves
serviceDelivers ==
    /\ loading
    /\ LET call == getOffersLog[Len(getOffersLog)]
           response == getOffersResponse(fixture, votesCache, call.page, call.pageSize)
       IN  /\ allOffers' = [kind |-> "Offer[]", offers |-> fixture]
           /\ accumulatedOffers' = tapAccumulate(accumulatedOffers, response.offers)
           /\ offersResource' = [status |-> "resolved",
                                 value |-> [kind |-> "response", hasMore |-> response.hasMore],
                                 error |-> null]
           /\ lastResponse' = [op |-> "getOffers", page |-> call.page,
                               pageSize |-> call.pageSize, value |-> response]
    /\ lastOp' = Op("getOffers", "", "next")
    /\ UNCHANGED <<currentPage, userVotesSignal, localStorage, pendingVotes,
                   getOffersLog, updateVoteCalls, lastVote, history,
                   fixture, votesCache, httpPending, pageVars>>

\* The GET of the resource's getOffers call fails
serviceFails ==
    /\ getOffersError
    /\ lastResponse' = [op |-> "getOffers", failed |-> TRUE]
    /\ UNCHANGED <<fixture, allOffers, votesCache, httpPending, pageVars, history>>

\* OffersStore.upvote with OffersApiService.updateVote behind it, which answers
\* 150 ms later
upvoteOnService ==
    /\ \E offerId \in FixtureVoteIds :
        /\ castVote("upvote", offerId, upvotePlan(userVotesSignal, offerId), "later")
        /\ updateVoteOfService(offerId, upvotePlan(userVotesSignal, offerId).change)
    /\ UNCHANGED <<pageVars, history>>

\* OffersStore.downvote with OffersApiService.updateVote behind it
downvoteOnService ==
    /\ \E offerId \in FixtureVoteIds :
        /\ castVote("downvote", offerId, downvotePlan(userVotesSignal, offerId), "later")
        /\ updateVoteOfService(offerId, downvotePlan(userVotesSignal, offerId).change)
    /\ UNCHANGED <<pageVars, history>>

NextFixture ==
    \/ loadNextPage /\ storeOnly
    \/ serviceDelivers
    \/ serviceFails
    \/ upvoteOnService
    \/ downvoteOnService
    \/ updateVoteNext /\ storeOnly

SpecFixture == InitFixture /\ [][NextFixture]_vars

\* ------------------------- paging to the end of the file, with no fetch failing

\* The caller calls loadNextPage() when the store is idle and has more to fetch
loadNextPageWhenIdle ==
    /\ loadNextPageOutcome = "advanced"
    /\ loadNextPage
    /\ storeOnly

NextLive ==
    \/ loadNextPage /\ storeOnly
    \/ serviceDelivers
    \/ upvoteOnService
    \/ downvoteOnService
    \/ updateVoteNext /\ storeOnly

\* Every GET is answered, and the caller keeps calling loadNextPage()
SpecLive ==
    /\ InitFixture
    /\ [][NextLive]_vars
    /\ WF_vars(serviceDelivers)
    /\ WF_vars(loadNextPageWhenIdle)

\* ------------------------------------------------- OfferDetailsPageComponent

\* Route parameters that are explored: an offer id, and the empty string
RouteIds == {"a", ""}

\* Largest clock value, and largest number of confirmPurchase() calls, explored
MaxTime == 3

MaxConfirms == 2

\* The delay of the setTimeout of confirmPurchase, 2000 ms, in steps of the clock
purchaseDelay == 2

\* OfferDetailsPageComponent.offer: offerId ? store.getOfferById(offerId) : undefined
offer == IF routeId = "" THEN undefined ELSE getOfferById(routeId)

\* Field initialisers of OfferDetailsPageComponent, over a new OffersStore
InitDetails ==
    /\ routeId \in RouteIds
    /\ showPurchaseModal = FALSE
    /\ purchaseSuccess = FALSE
    /\ timers = << >>
    /\ now = 0
    /\ navigateLog = << >>
    /\ localStorage = [k \in {} |-> NullItem]
    /\ updateVoteCalls = 0
    /\ currentPage = 0
    /\ accumulatedOffers = << >>
    /\ userVotesSignal = loadUserVotesFrom(getItem(STORAGE_KEY))
    /\ offersResource = resourceLoading
    /\ getOffersLog = << streamCall(0) >>
    /\ pendingVotes = {}
    /\ lastOp = Op("constructor", "", "first")
    /\ lastVote = NoVote
    /\ noService
    /\ noHistory

\* The step is one of the store, with the page as it is
pageIdle == UNCHANGED <<apiVars, pageVars, history>>

\* The step is one of the page, with the store untouched but for the record of it
pageStep(name, outcome) ==
    /\ lastOp' = Op(name, routeId, outcome)
    /\ UNCHANGED <<currentPage, accumulatedOffers, userVotesSignal, offersResource,
                   localStorage, pendingVotes, getOffersLog, updateVoteCalls, lastVote,
                   history, apiVars, routeId>>

\* onUpvote that calls the store whether or not the offer is found
onUpvoteUnguarded ==
    /\ routeId # ""
    /\ \E mode \in VoteModes :
            castVote("upvote", routeId, upvotePlan(userVotesSignal, routeId), mode)
    /\ pageIdle

\* OfferDetailsPageComponent.onUpvote
onUpvote ==
    IF offer # undefined
    THEN /\ \E mode \in VoteModes :
                castVote("upvote", offer.id, upvotePlan(userVotesSignal, offer.id), mode)
         /\ pageIdle
    ELSE /\ pageStep("onUpvote", "no offer")
         /\ UNCHANGED <<showPurchaseModal, purchaseSuccess, timers, now, navigateLog>>

\* OfferDetailsPageComponent.onDownvote
onDownvote ==
    IF offer # undefined
    THEN /\ \E mode \in VoteModes :
                castVote("downvote", offer.id, downvotePlan(userVotesSignal, offer.id), mode)
         /\ pageIdle
    ELSE /\ pageStep("onDownvote", "no offer")
         /\ UNCHANGED <<showPurchaseModal, purchaseSuccess, timers, now, navigateLog>>

\* OfferDetailsPageComponent.openPurchaseModal
openPurchaseModal ==
    /\ showPurchaseModal' = TRUE
    /\ pageStep("openPurchaseModal", "returned")
    /\ UNCHANGED <<purchaseSuccess, timers, now, navigateLog>>

\* OfferDetailsPageComponent.closePurchaseModal
closePurchaseModal ==
    /\ showPurchaseModal' = FALSE
    /\ purchaseSuccess' = FALSE
    /\ pageStep("closePurchaseModal", "returned")
    /\ UNCHANGED <<timers, now, navigateLog>>

\* OfferDetailsPageComponent.confirmPurchase: the flag, and the timer is set
confirmPurchase ==
    /\ Len(timers) + Len(navigateLog) < MaxConfirms
    /\ purchaseSuccess' = TRUE
    /\ timers' = Append(timers, [set |-> now, due |-> now + purchaseDelay])
    /\ pageStep("confirmPurchase", "returned")
    /\ UNCHANGED <<showPurchaseModal, now, navigateLog>>

\* The callback of the setTimeout of confirmPurchase runs:
\* closePurchaseModal(), then router.navigate(['/'])
purchaseTimeout ==
    /\ timers # << >>
    /\ Head(timers).due <= now
    /\ timers' = Tail(timers)
    /\ showPurchaseModal' = FALSE
    /\ purchaseSuccess' = FALSE
    /\ navigateLog' = Append(navigateLog, [commands |-> << "/" >>, at |-> now])
    /\ pageStep("setTimeout callback", "returned")
    /\ UNCHANGED now

\* 1000 ms pass; a timer that is due runs before the clock moves on
tick ==
    /\ now < MaxTime
    /\ \A i \in 1 .. Len(timers) : timers[i].due > now
    /\ now' = now + 1
    /\ UNCHANGED <<storeVars, apiVars, routeId, showPurchaseModal, purchaseSuccess,
                   timers, navigateLog>>

NextDetails ==
    \/ getOffersNext /\ pageIdle
    \/ getOffersError /\ pageIdle
    \/ updateVoteNext /\ pageIdle
    \/ updateVoteError /\ pageIdle
    \/ onUpvote
    \/ onDownvote
    \/ openPurchaseModal
    \/ closePurchaseModal
    \/ confirmPurchase
    \/ purchaseTimeout
    \/ tick

SpecDetails == InitDetails /\ [][NextDetails]_vars

\* ------------------------------------------------------------------ claims

VoteNames == {"upvote", "downvote"}

\* The toggle table of upvote/downvote: the vote state after the call
tableState(state, name) ==
    IF name = "upvote" THEN (IF state = 1 THEN 0 ELSE 1)
    ELSE (IF state = -1 THEN 0 ELSE -1)

\* The toggle table of upvote/downvote: the delta of the offer's votes
tableDelta(state, name) ==
    IF name = "upvote"
    THEN (IF state = 0 THEN 1 ELSE IF state = 1 THEN -1 ELSE 2)
    ELSE (IF state = 0 THEN -1 ELSE IF state = -1 THEN 1 ELSE -2)

\* C1: every upvote(id)/downvote(id) step follows the toggle table for the vote
\* state of id before the call: getUserVote(id) becomes the table's new state; the
\* table's delta is on every accumulated offer with that id when the data source is
\* called, and is still there when the call returns unless the data source failed
\* during the call; no other offer changes; exactly one updateVote call is issued,
\* with that id and that delta (and is pending if it has not answered).
C1_ToggleTable ==
    [][lastOp'.name \in VoteNames =>
        LET id == lastOp'.arg
            state == getUserVote(id)
            delta == tableDelta(state, lastOp'.name)
        IN  /\ userVoteIn(userVotesSignal', id) = tableState(state, lastOp'.name)
            /\ \A other \in Ids \ {id} :
                    userVoteIn(userVotesSignal', other) = getUserVote(other)
            /\ lastVote'.atDispatch.tally =
                    [loaded |-> tally(id).loaded,
                     votes |-> IF tally(id).loaded THEN tally(id).votes + delta ELSE 0]
            /\ Len(accumulatedOffers') = Len(accumulatedOffers)
            /\ \A i \in 1 .. Len(accumulatedOffers) :
                    accumulatedOffers'[i] =
                        IF accumulatedOffers[i].id = id /\ lastVote'.outcome # "error"
                        THEN [accumulatedOffers[i] EXCEPT !.votes = @ + delta]
                        ELSE accumulatedOffers[i]
            /\ updateVoteCalls' = updateVoteCalls + 1
            /\ lastVote'.offerId = id
            /\ lastVote'.change = delta
            /\ pendingVotes' =
                    IF lastVote'.outcome = "later"
                    THEN pendingVotes \cup
                            {[n |-> updateVoteCalls', offerId |-> id, change |-> delta]}
                    ELSE pendingVotes
    ]_vars

\* C1 witness: an upvote of a loaded, downvoted offer has just returned (+2)
C1_Witness ==
    /\ lastOp.name = "upvote"
    /\ lastVote.change = 2
    /\ lastVote.before.loaded
    /\ tally(lastOp.arg).votes = lastVote.before.votes + 2
    /\ getUserVote(lastOp.arg) = 1

\* The position at which an offer was inserted into the accumulated set
insertedAt(id) == findOffer(accumulatedOffers, id)

\* C2: in every state offers() holds exactly the accumulated offers, by votes
\* descending, and offers with equal votes in the order of their insertion; hence
\* the order of two offers is decided by their current tallies alone.
C2_SortedStable ==
    /\ Len(offers) = Len(accumulatedOffers)
    /\ \A i \in 1 .. Len(accumulatedOffers) :
            \E j \in 1 .. Len(offers) : offers[j] = accumulatedOffers[i]
    /\ \A i, j \in 1 .. Len(offers) :
            i < j =>
                \/ offers[i].votes > offers[j].votes
                \/ /\ offers[i].votes = offers[j].votes
                   /\ insertedAt(offers[i].id) < insertedAt(offers[j].id)

\* C2 witness: a vote has just lifted the offer inserted second above the first
C2_Witness ==
    /\ lastOp.name \in VoteNames
    /\ Len(accumulatedOffers) = 2
    /\ lastVote.offerId = accumulatedOffers[2].id
    /\ lastVote.before.votes <= accumulatedOffers[1].votes
    /\ offers[1] = accumulatedOffers[2]
    /\ offers[2] = accumulatedOffers[1]

\* C3: once the updateVote call of the last vote on a loaded offer has failed, and
\* no rollback of another vote on that offer came in between, the offer's votes are
\* back at their value before the vote, while getUserVote(id) and the stored copy
\* still report the state the vote set.
C3_TallyRollsBackOnly ==
    (lastVote.outcome = "error" /\ lastVote.quiet /\ lastVote.before.loaded) =>
        /\ tally(lastVote.offerId) = lastVote.before
        /\ getUserVote(lastVote.offerId) = lastVote.voteType
        /\ userVoteIn(loadUserVotesFrom(getItem(STORAGE_KEY)), lastVote.offerId)
                = lastVote.voteType

\* C3 witness: the pending updateVote call of an upvote has just failed; the votes
\* are back at 1 while getUserVote reports +1
C3_Witness ==
    /\ lastOp = Op("updateVote", lastVote.offerId, "error")
    /\ lastVote.outcome = "error"
    /\ lastVote.quiet
    /\ lastVote.name = "upvote"
    /\ lastVote.before = [loaded |-> TRUE, votes |-> 1]
    /\ tally(lastVote.offerId).votes = 1
    /\ getUserVote(lastVote.offerId) = 1

\* C4: a loadNextPage() call made while a fetch is in flight (the one started at
\* construction included) changes neither the cursor nor the resource and calls
\* getOffers not at all; getOffers is only ever called when no fetch is in flight;
\* and the end of a fetch starts no further fetch (nothing was queued).
C4_OneFetchInFlight ==
    [][/\ (lastOp'.name = "loadNextPage" /\ offersResource.status = "loading") =>
            /\ currentPage' = currentPage
            /\ offersResource' = offersResource
            /\ getOffersLog' = getOffersLog
       /\ (getOffersLog' # getOffersLog /\ lastOp'.name # "constructor") =>
            /\ offersResource.status # "loading"
            /\ Len(getOffersLog') = Len(getOffersLog) + 1
       /\ lastOp'.name = "getOffers" =>
            /\ currentPage' = currentPage
            /\ getOffersLog' = getOffersLog
            /\ offersResource'.status # "loading"
    ]_vars

\* C4 witness: loadNextPage() was called while the fetch of page 0 started at
\* construction was in flight, and nothing moved
C4_Witness ==
    /\ lastOp = Op("loadNextPage", "", "no-op")
    /\ offersResource.status = "loading"
    /\ currentPage = 0
    /\ getOffersLog = << streamCall(0) >>

\* C5: a page that arrives is appended to the accumulated offers (everything
\* accumulated before stays, in place) and offers() shows every accumulated offer;
\* a loadNextPage() call after a page that reported hasMore = false moves neither
\* the cursor nor the resource and calls getOffers not at all.
C5_AccumulateThenStop ==
    [][/\ lastOp' = Op("getOffers", "", "next") =>
            /\ Len(accumulatedOffers') >= Len(accumulatedOffers)
            /\ SubSeq(accumulatedOffers', 1, Len(accumulatedOffers)) = accumulatedOffers
            /\ \A i \in 1 .. Len(accumulatedOffers') :
                    \E j \in 1 .. Len(offers') : offers'[j] = accumulatedOffers'[i]
       /\ (/\ lastOp'.name = "loadNextPage"
           /\ offersResource.status = "resolved"
           /\ ~offersResource.value.hasMore) =>
            /\ lastOp'.outcome = "no-op"
            /\ currentPage' = currentPage
            /\ offersResource' = offersResource
            /\ getOffersLog' = getOffersLog
    ]_vars

\* C5 witness: page 0 brought one offer with hasMore = true, page 1 another with
\* hasMore = false, both are in offers(), and a third loadNextPage() did nothing
C5_Witness ==
    /\ lastOp = Op("loadNextPage", "", "no-op")
    /\ currentPage = 1
    /\ getOffersLog = << streamCall(0), streamCall(1) >>
    /\ offersResource.status = "resolved"
    /\ ~hasMore
    /\ Len(accumulatedOffers) = 2
    /\ {offers[i].id : i \in 1 .. Len(offers)} = Ids

\* C6: when a page fetch fails, loading() is false and error() is the message of the
\* failure, the accumulated offers and the cursor are as they were during the
\* fetch, and no getOffers call is issued.
C6_FetchFailure ==
    [][lastOp' = Op("getOffers", "", "error") =>
            /\ ~loading'
            /\ error' # null
            /\ error'.value \in Messages
            /\ error'.value = offersResource'.error.message
            /\ accumulatedOffers' = accumulatedOffers
            /\ currentPage' = currentPage
            /\ getOffersLog' = getOffersLog
    ]_vars

\* C6 witness: the fetch of page 1 has just failed, with page 0 accumulated
C6_Witness ==
    /\ lastOp = Op("getOffers", "", "error")
    /\ currentPage = 1
    /\ Len(accumulatedOffers) = 1
    /\ ~loading
    /\ error = [kind |-> "string", value |-> "Network error"]

\* C7 (as claimed): after the fetch of page k has failed, a loadNextPage() call
\* fetches page k again, so that the page is not left out.
C7_ResumesFromFailedPage ==
    [][(lastOp'.name = "loadNextPage" /\ offersResource.status = "error") =>
            /\ offersResource'.status = "loading"
            /\ getOffersLog' = Append(getOffersLog, streamCall(currentPage))
    ]_vars

tokensOf(n) == IF n = 0 THEN 2 ELSE 2 + 9 * n + (n - 1)

\* C9: when a vote call returns, the slot 'rebuy_user_votes' holds the current
\* UserVote set as a JSON array of {offerId, voteType} objects in the set's order
\* (it parses back to exactly that sequence); no other step writes localStorage.
C9_SlotWrittenByVotesOnly ==
    [][/\ lastOp'.name \in VoteNames =>
            /\ DOMAIN localStorage' = {STORAGE_KEY}
            /\ localStorage'[STORAGE_KEY] = JsonStringify(userVotesSignal')
            /\ JsonParse(localStorage'[STORAGE_KEY]) = userVotesSignal'
            /\ Len(localStorage'[STORAGE_KEY]) = tokensOf(Len(userVotesSignal'))
            /\ \A i \in 1 .. Len(userVotesSignal') :
                    /\ DOMAIN userVotesSignal'[i] = {"offerId", "voteType"}
                    /\ userVotesSignal'[i].voteType \in {1, -1}
       /\ lastOp'.name \notin VoteNames => localStorage' = localStorage
    ]_vars

\* C9 witness: a downvote has returned with votes on two offers in the slot
C9_Witness ==
    /\ lastOp.name = "downvote"
    /\ Len(userVotesSignal) = 2
    /\ getItem(STORAGE_KEY) = JsonStringify(userVotesSignal)

\* C10: a store constructed over the slot an earlier instance left reports the same
\* getUserVote(id) for every offer id as that instance did after its last vote.
C10_RoundTrip ==
    [][lastOp'.name = "constructor" =>
            \A id \in Ids : userVoteIn(userVotesSignal', id) = getUserVote(id)
    ]_vars

\* C10 witness: a later instance reports +1 for one offer and -1 for the other
C10_Witness ==
    /\ lastOp = Op("constructor", "", "again")
    /\ \E up, down \in Ids : getUserVote(up) = 1 /\ getUserVote(down) = -1

\* C11 (as claimed): the constructor never throws, and over a slot that is missing
\* or does not parse the store starts with an empty UserVote set.
C11_ConstructionNeverFails ==
    lastOp.name = "constructor" =>
        /\ lastOp.outcome # "threw"
        /\ (getItem(STORAGE_KEY) = NullItem \/ ~jsonParses(getItem(STORAGE_KEY))) =>
                userVotesSignal = << >>

\* C12: in every state of a store constructed over a missing slot or over a slot
\* holding a JSON array of votes, the UserVote set has at most one entry for each
\* offerId, every voteType is +1 or -1, and getUserVote(id) is the voteType of the
\* entry for id, and 0 exactly when there is no entry for id.
C12_OneVotePerOffer ==
    storeExists =>
        /\ \A i, j \in DOMAIN userVotesSignal :
                userVotesSignal[i].offerId = userVotesSignal[j].offerId => i = j
        /\ \A i \in DOMAIN userVotesSignal : userVotesSignal[i].voteType \in {1, -1}
        /\ \A id \in Ids :
                LET entries == {i \in DOMAIN userVotesSignal : userVotesSignal[i].offerId = id}
                IN  /\ getUserVote(id) = 0 <=> entries = {}
                    /\ \A i \in entries : getUserVote(id) = userVotesSignal[i].voteType

\* A store constructed over a slot that already held the upvote of "a" has switched
\* it to a downvote and has recorded a vote on "b" as well.
C12_Witness ==
    /\ storeExists
    /\ lastVote.n = 2
    /\ lastVote.change = -2
    /\ getUserVote("a") = -1
    /\ getUserVote("b") # 0
    /\ Len(userVotesSignal) = 2

\* The step is a vote call on the offer of the vote call before it, which was the
\* given call on a loaded offer without a recorded vote, and no reconciliation of
\* that offer has failed since, that of this call included.
secondVoteAfter(first) ==
    /\ lastOp'.name \in VoteNames
    /\ lastVote.name = first
    /\ lastVote.offerId = lastOp'.arg
    /\ lastVote.change = (IF first = "upvote" THEN 1 ELSE -1)
    /\ lastVote.before.loaded
    /\ lastVote.outcome # "error"
    /\ lastVote.quiet
    /\ lastVote'.outcome # "error"

\* C13: toggle symmetry. When upvote(id) on a loaded offer with votes = V and no
\* recorded vote is followed by upvote(id), and no reconciliation fails, the votes
\* are V again and getUserVote(id) is 0; likewise downvote(id) then downvote(id).
C13_ToggleSymmetry ==
    [][\A name \in VoteNames :
        secondVoteAfter(name) /\ lastOp'.name = name =>
            /\ tallyIn(accumulatedOffers', lastOp'.arg) =
                    [loaded |-> TRUE, votes |-> lastVote.before.votes]
            /\ userVoteIn(userVotesSignal', lastOp'.arg) = 0
    ]_vars

\* C13 witness: the second downvote of an offer has returned while the first one,
\* made without a recorded vote, is still to be answered.
C13_Witness ==
    /\ lastVote.name = "downvote"
    /\ lastVote.change = 1
    /\ lastVote.before.loaded
    /\ lastVote.outcome # "error"
    /\ [n |-> lastVote.n - 1, offerId |-> lastVote.offerId, change |-> -1] \in pendingVotes
    /\ getUserVote(lastVote.offerId) = 0
    /\ tally(lastVote.offerId).votes = lastVote.before.votes + 1

\* C14: cross-toggle arithmetic. From a loaded offer with votes = V and no recorded
\* vote, when no reconciliation fails, upvote(id) then downvote(id) gives votes V - 1
\* and getUserVote(id) = -1; downvote(id) then upvote(id) gives V + 1 and +1.
C14_CrossToggle ==
    [][\A name \in VoteNames :
        secondVoteAfter(name) /\ lastOp'.name # name =>
            LET sign == IF name = "upvote" THEN -1 ELSE 1
            IN  /\ tallyIn(accumulatedOffers', lastOp'.arg) =
                        [loaded |-> TRUE, votes |-> lastVote.before.votes + sign]
                /\ userVoteIn(userVotesSignal', lastOp'.arg) = sign
    ]_vars

\* C14 witness: a downvote has returned that switched an upvote made without a
\* recorded vote, and the upvote is still to be answered.
C14_Witness ==
    /\ lastVote.name = "downvote"
    /\ lastVote.change = -2
    /\ lastVote.before.loaded
    /\ lastVote.outcome # "error"
    /\ [n |-> lastVote.n - 1, offerId |-> lastVote.offerId, change |-> 1] \in pendingVotes
    /\ getUserVote(lastVote.offerId) = -1
    /\ tally(lastVote.offerId).votes = lastVote.before.votes - 2

\* C15: vote calls on one offer whose reconciliations are pending at once are not
\* coordinated. A failed reconciliation takes exactly the change of its own call
\* off the votes the offer has then, and nothing else; a successful one changes no
\* votes. So once every call of a run of vote calls on a loaded offer has been
\* answered, the offer's votes are their value before the run plus the changes of
\* the calls that did not fail.
C15_OwnDeltaOnly ==
    /\ [](\A id \in Ids :
            (/\ lastVote.offerId = id
             /\ lastVote.run.base.loaded
             /\ lastVote.run.clean
             /\ ~\E p \in pendingVotes : p.offerId = id) =>
                tally(id) = [loaded |-> TRUE,
                             votes |-> lastVote.run.base.votes + lastVote.run.kept])
    /\ [][lastOp'.name = "updateVote" =>
            \E p \in pendingVotes :
                /\ pendingVotes' = pendingVotes \ {p}
                /\ Len(accumulatedOffers') = Len(accumulatedOffers)
                /\ \A i \in 1 .. Len(accumulatedOffers) :
                        accumulatedOffers'[i] =
                            IF lastOp'.outcome = "error" /\ accumulatedOffers[i].id = p.offerId
                            THEN [accumulatedOffers[i] EXCEPT !.votes = @ - p.change]
                            ELSE accumulatedOffers[i]
       ]_vars

\* C15 witness: two vote calls on a loaded offer were pending at once; the first
\* has failed and the second has succeeded, and the votes are the value before
\* the two plus the change of the second.
C15_Witness ==
    /\ lastVote.run.overlap
    /\ lastVote.run.base.loaded
    /\ lastVote.run.first = lastVote.n - 1
    /\ lastVote.outcome = "next"
    /\ ~lastVote.quiet
    /\ pendingVotes = {}
    /\ lastVote.run.kept = lastVote.change
    /\ tally(lastVote.offerId).votes = lastVote.run.base.votes + lastVote.change

\* C16: a store that has just been constructed is loading, its cursor is 0 and it
\* has called getOffers(0, 10) and nothing else. Within one store the cursor never
\* decreases; it goes up by exactly 1 on every loadNextPage() made while no fetch
\* is in flight and hasMore() is true, and stays on every other step; and every
\* getOffers call asks for the page the cursor is on then, with page size 10.
C16_CursorAndFetches ==
    /\ [](lastOp.name = "constructor" =>
            /\ loading
            /\ currentPage = 0
            /\ getOffersLog = << [page |-> 0, pageSize |-> 10] >>)
    /\ [][lastOp'.name # "constructor" =>
            LET passes == lastOp'.name = "loadNextPage" /\ ~loading /\ ~valueThrows /\ hasMore
            IN  /\ currentPage' >= currentPage
                /\ currentPage' = IF passes THEN currentPage + 1 ELSE currentPage
                /\ passes => getOffersLog' # getOffersLog
                /\ getOffersLog' # getOffersLog =>
                        getOffersLog' = Append(getOffersLog,
                                               [page |-> currentPage', pageSize |-> 10])
       ]_vars

\* C16 witness: the second loadNextPage() that passed the guards has moved the cursor
\* to 2 and getOffers(2, 10) is in flight.
C16_Witness ==
    /\ lastOp = Op("loadNextPage", "", "advanced")
    /\ currentPage = 2
    /\ loading
    /\ getOffersLog = << [page |-> 0, pageSize |-> 10], [page |-> 1, pageSize |-> 10],
                         [page |-> 2, pageSize |-> 10] >>

\* C17: hasMore() is true while the first fetch of a store has not completed, and
\* once a fetch has completed successfully it is the hasMore flag of the page that
\* fetch delivered, until the next fetch starts.
C17_HasMoreOfLastPage ==
    /\ []((loading /\ Len(getOffersLog) = 1) => hasMore = TRUE)
    /\ [](offersResource.status = "resolved" => hasMore = offersResource.value.hasMore)
    /\ [][lastOp' = Op("getOffers", "", "next") =>
            /\ offersResource'.status = "resolved"
            /\ hasMore' = offersResource'.value.hasMore
       ]_vars

\* C17 witness: page 1 has arrived with hasMore = false, after page 0 had arrived
\* with hasMore = true.
C17_Witness ==
    /\ lastOp = Op("getOffers", "", "next")
    /\ currentPage = 1
    /\ offersResource.value.hasMore = FALSE
    /\ ~hasMore

\* C18: error() reflects page fetches only. It is null unless the most recent
\* completed page fetch of the store failed; and no vote call and no answer to a
\* vote reconciliation, a failure included, changes error() or loading().
C18_ErrorOfFetchesOnly ==
    /\ [](offersResource.status # "error" => error = null)
    /\ [][lastOp'.name \in VoteNames \cup {"updateVote"} =>
            /\ error' = error
            /\ loading' = loading
       ]_vars

\* C18 witness: a vote reconciliation has just failed in a store whose last page
\* fetch succeeded; error() is null and loading() is false.
C18_Witness ==
    /\ lastOp.name = "updateVote"
    /\ lastOp.outcome = "error"
    /\ offersResource.status = "resolved"
    /\ error = null
    /\ ~loading

\* C19 (as claimed): whatever has failed before, reading hasMore() does not throw
\* and no operation of the store throws.
C19_NothingRaises ==
    /\ ~valueThrows
    /\ lastOp.outcome # "threw"

\* C20: getOfferById(id) is a pure lookup. When an accumulated offer has the id, it
\* returns an accumulated offer with that id; otherwise it returns undefined; it
\* does not throw; and the call changes nothing in the store and calls neither
\* getOffers nor updateVote.
C20_PureLookup ==
    [][lastOp'.name = "getOfferById" =>
        LET id == lastOp'.arg
            present == \E i \in 1 .. Len(accumulatedOffers) : accumulatedOffers[i].id = id
        IN  /\ present =>
                /\ lastOp'.outcome = "found"
                /\ getOfferById(id).id = id
                /\ \E i \in 1 .. Len(accumulatedOffers) :
                        accumulatedOffers[i] = getOfferById(id)
            /\ ~present =>
                /\ lastOp'.outcome = "undefined"
                /\ getOfferById(id) = undefined
            /\ getOffersLog' = getOffersLog
            /\ updateVoteCalls' = updateVoteCalls
            /\ pendingVotes' = pendingVotes
            /\ UNCHANGED <<currentPage, accumulatedOffers, userVotesSignal,
                           offersResource, localStorage>>
    ]_vars

\* C20 witness: an offer that is in none of the two fetched pages, one of them
\* empty, was looked up, and the caller got undefined.
C20_Witness ==
    /\ lastOp.name = "getOfferById"
    /\ lastOp.outcome = "undefined"
    /\ currentPage = 1
    /\ offersResource.status = "resolved"
    /\ Len(accumulatedOffers) = 1
    /\ \A i \in 1 .. Len(accumulatedOffers) : accumulatedOffers[i].id # lastOp.arg

\* The ids of the offers of a page
idsOf(list) == {list[i].id : i \in 1 .. Len(list)}

\* C21: over a file of N offers, what getOffers(page, pageSize) emits has exactly the
\* offers at the file's positions page*pageSize .. page*pageSize + pageSize - 1 that
\* exist, in file order, total = N, the page and pageSize asked for, and hasMore true
\* exactly when (page + 1) * pageSize < N; a page beyond the file is empty with
\* hasMore false; and two different pages of one page size share no offer.
C21_PageOfFixture ==
    /\ (lastResponse.op = "getOffers" /\ "value" \in DOMAIN lastResponse) =>
        LET page == lastResponse.page
            size == lastResponse.pageSize
            N == Len(fixture)
            response == lastResponse.value
            positions == {i \in 1 .. N : page * size < i /\ i <= page * size + size}
        IN  /\ Len(response.offers) = Cardinality(positions)
            /\ \A j \in 1 .. Len(response.offers) :
                    /\ page * size + j \in positions
                    /\ response.offers[j].id = fixture[page * size + j].id
                    /\ response.offers[j].title = fixture[page * size + j].title
            /\ response.total = N
            /\ response.page = page
            /\ response.pageSize = size
            /\ response.hasMore <=> (page + 1) * size < N
            /\ page * size >= N => response.offers = << >> /\ ~response.hasMore
    /\ \A size \in ApiPageSizes : \A p, q \in 0 .. MaxApiPage :
            p # q =>
                idsOf(getOffersResponse(fixture, votesCache, p, size).offers) \cap
                idsOf(getOffersResponse(fixture, votesCache, q, size).offers) = {}

\* C21 witness: page 1 of size 2 of a file of 3 offers was emitted: one offer, the
\* third of the file, and hasMore false.
C21_Witness ==
    /\ lastResponse.op = "getOffers"
    /\ "value" \in DOMAIN lastResponse
    /\ lastResponse.page = 1
    /\ lastResponse.pageSize = 2
    /\ Len(fixture) = 3
    /\ idsOf(lastResponse.value.offers) = {"c"}
    /\ ~lastResponse.value.hasMore

\* The votes of the offer with this id in a list of offers, 0 when it has none
votesIn(list, offerId) ==
    IF findOffer(list, offerId) = 0 THEN 0 ELSE list[findOffer(list, offerId)].votes

\* What getOffers and getOfferById emit carries the cached total of every offer that
\* has one, and the file's votes of every other offer
readsReportCache ==
    /\ (lastResponse.op = "getOffers" /\ "value" \in DOMAIN lastResponse) =>
        \A j \in 1 .. Len(lastResponse.value.offers) :
            LET item == lastResponse.value.offers[j]
            IN  item.votes = IF item.id \in DOMAIN votesCache
                              THEN votesCache[item.id]
                              ELSE votesIn(fixture, item.id)
    /\ (lastResponse.op = "getOfferById" /\ "value" \in DOMAIN lastResponse) =>
        LET offerId == lastResponse.offerId
        IN  IF findOffer(fixture, offerId) = 0 THEN lastResponse.value = null
            ELSE lastResponse.value.votes = IF offerId \in DOMAIN votesCache
                                            THEN votesCache[offerId]
                                            ELSE votesIn(fixture, offerId)

\* C22 (as claimed): updateVote(id, d) returns the last-known total of id plus d,
\* where the last-known total is the cached total if there is one, else the votes
\* of id in the file, else 0; and later reads report the cached total.
C22_CumulativeOnFixture ==
    /\ []readsReportCache
    /\ [][updateVoteCalls' = updateVoteCalls + 1 =>
            LET offerId == lastResponse'.offerId
                lastKnown == IF offerId \in DOMAIN votesCache THEN votesCache[offerId]
                             ELSE votesIn(fixture, offerId)
            IN  /\ lastResponse'.value.votes = lastKnown + lastResponse'.voteChange
                /\ offerId \in DOMAIN votesCache'
                /\ votesCache'[offerId] = lastResponse'.value.votes
       ]_vars

\* C22 (amended): as C22, but the votes of id in the file count only once a getOffers
\* call of the service has completed; before that, and for an id that is not in the
\* file, the last-known total of an id without a cached total is 0.
C22_CumulativeOnDelivered ==
    /\ []readsReportCache
    /\ [][updateVoteCalls' = updateVoteCalls + 1 =>
            LET offerId == lastResponse'.offerId
                lastKnown == IF offerId \in DOMAIN votesCache THEN votesCache[offerId]
                             ELSE IF allOffers = null THEN 0
                             ELSE votesIn(fixture, offerId)
            IN  /\ lastResponse'.value.votes = lastKnown + lastResponse'.voteChange
                /\ offerId \in DOMAIN votesCache'
                /\ votesCache'[offerId] = lastResponse'.value.votes
                /\ \A other \in DOMAIN votesCache \ {offerId} :
                        votesCache'[other] = votesCache[other]
       ]_vars

\* C22 witness: updateVote("a", 1) was called before any getOffers call completed,
\* over a file in which "a" has 1 vote, and returned 1.
C22_Witness ==
    /\ lastResponse.op = "updateVote"
    /\ lastResponse.offerId = "a"
    /\ lastResponse.voteChange = 1
    /\ allOffers = null
    /\ votesIn(fixture, "a") = 1
    /\ lastResponse.value.votes = 1
    /\ votesCache["a"] = 1

\* C23: a vote call for an offerId that is not in the accumulated set changes no
\* offer, but getUserVote(id) becomes what the toggle table says, the slot is
\* written with the new UserVote set, and updateVote is called once with the
\* table's delta.
C23_VoteOnAbsentOffer ==
    [][(lastOp'.name \in VoteNames /\ ~tally(lastOp'.arg).loaded) =>
        LET offerId == lastOp'.arg
        IN  /\ accumulatedOffers' = accumulatedOffers
            /\ userVoteIn(userVotesSignal', offerId) =
                    tableState(getUserVote(offerId), lastOp'.name)
            /\ \A other \in Ids \ {offerId} :
                    userVoteIn(userVotesSignal', other) = getUserVote(other)
            /\ STORAGE_KEY \in DOMAIN localStorage'
            /\ loadUserVotesFrom(localStorage'[STORAGE_KEY]) = userVotesSignal'
            /\ updateVoteCalls' = updateVoteCalls + 1
            /\ lastVote'.offerId = offerId
            /\ lastVote'.change = tableDelta(getUserVote(offerId), lastOp'.name)
    ]_vars

\* C23 witness: an upvote of an offer that is not accumulated was switched to a
\* downvote while another offer is accumulated; the vote is recorded and stored.
C23_Witness ==
    /\ lastOp.name = "downvote"
    /\ ~lastVote.before.loaded
    /\ ~tally(lastVote.offerId).loaded
    /\ lastVote.change = -2
    /\ Len(accumulatedOffers) = 1
    /\ getUserVote(lastVote.offerId) = -1
    /\ userVoteIn(loadUserVotesFrom(getItem(STORAGE_KEY)), lastVote.offerId) = -1

\* C24: within one store the accumulated set only grows: every step keeps every
\* accumulated offer at its position, and changes nothing of it but the votes, and
\* those only when the step is a vote call or a rollback for that offer's id.
C24_OnlyGrowsOnlyVotes ==
    [][lastOp'.name # "constructor" =>
        /\ Len(accumulatedOffers') >= Len(accumulatedOffers)
        /\ \A i \in 1 .. Len(accumulatedOffers) :
                \/ accumulatedOffers'[i] = accumulatedOffers[i]
                \/ /\ accumulatedOffers'[i] =
                        [accumulatedOffers[i] EXCEPT !.votes = accumulatedOffers'[i].votes]
                   /\ lastOp'.name \in VoteNames \cup {"updateVote"}
                   /\ lastOp'.arg = accumulatedOffers[i].id
    ]_vars

\* C24 witness: a page fetch has failed in a store that had accumulated an offer
\* and changed its votes by a vote; the offer is still there.
C24_Witness ==
    /\ lastOp = Op("getOffers", "", "error")
    /\ Len(accumulatedOffers) = 1
    /\ lastVote.before.loaded
    /\ lastVote.outcome = "next"
    /\ tally(lastVote.offerId).votes = lastVote.before.votes + lastVote.change

\* C28: a successful vote reconciliation changes nothing in the store: when the
\* success is delivered the accumulated offers, the UserVote set, the slot, the
\* cursor, loading(), error() and hasMore() are what they were; the total that
\* comes with it is not used.
C28_SuccessChangesNothing ==
    [][lastOp' = Op("updateVote", lastOp'.arg, "next") =>
        /\ accumulatedOffers' = accumulatedOffers
        /\ offers' = offers
        /\ userVotesSignal' = userVotesSignal
        /\ localStorage' = localStorage
        /\ currentPage' = currentPage
        /\ loading' = loading
        /\ error' = error
        /\ valueThrows' = valueThrows
        /\ ~valueThrows => hasMore' = hasMore
        /\ getOffersLog' = getOffersLog
    ]_vars

\* C28 witness: the reconciliation of an upvote of a loaded offer has succeeded
\* later; the optimistic tally stands.
C28_Witness ==
    /\ lastOp = Op("updateVote", lastVote.offerId, "next")
    /\ lastVote.outcome = "next"
    /\ lastVote.name = "upvote"
    /\ lastVote.before.loaded
    /\ lastVote.quiet
    /\ tally(lastVote.offerId).votes = lastVote.before.votes + lastVote.change

\* C29 (as claimed): when the reconciliation of the last vote call fails, the
\* rollback takes the call's delta off the target offer the vote was applied to and
\* leaves every other offer, the offers merged since the call included, as it was;
\* and a page merge changes no accumulated offer and not the UserVote set.
C29_RollbackAfterMerge ==
    [][/\ (lastOp'.name = "updateVote" /\ lastOp'.outcome = "error" /\
           lastVote'.outcome = "error" /\ lastVote.outcome = "later") =>
            /\ Len(accumulatedOffers') = Len(accumulatedOffers)
            /\ \A i \in 1 .. Len(accumulatedOffers) :
                    accumulatedOffers'[i] =
                        IF accumulatedOffers[i].id = lastVote.offerId /\ lastVote.before.loaded
                        THEN [accumulatedOffers[i] EXCEPT !.votes = @ - lastVote.change]
                        ELSE accumulatedOffers[i]
       /\ lastOp' = Op("getOffers", "", "next") =>
            /\ SubSeq(accumulatedOffers', 1, Len(accumulatedOffers)) = accumulatedOffers
            /\ userVotesSignal' = userVotesSignal
    ]_vars

\* C30: one user contributes at most one net vote. In a store that started with no
\* stored votes and whose reconciliations do not fail, every accumulated offer
\* that was not voted on before it was merged has votes = (its votes when it was
\* merged) + getUserVote(id), which is at most 1 away from the merged votes.
C30_OneNetVote ==
    \A offerId \in DOMAIN history.mergedVotes \ history.votedAbsent :
        /\ tally(offerId).loaded
        /\ tally(offerId).votes = history.mergedVotes[offerId] + getUserVote(offerId)
        /\ tally(offerId).votes - history.mergedVotes[offerId] \in {-1, 0, 1}

\* C30 witness: the second vote call on an offer switched an upvote to a downvote;
\* the offer is one vote below the votes it was merged with.
C30_Witness ==
    /\ lastVote.n = 2
    /\ lastVote.change = -2
    /\ lastVote.offerId \in DOMAIN history.mergedVotes \ history.votedAbsent
    /\ tally(lastVote.offerId).votes = history.mergedVotes[lastVote.offerId] - 1
    /\ getUserVote(lastVote.offerId) = -1

\* C27: the store and OffersApiService stay consistent. Whatever the order of page
\* fetches and vote calls, every accumulated offer has the votes the service has
\* for its id: the cached total if there is one, else the votes in the file.
C27_StoreAgreesWithService ==
    \A i \in 1 .. Len(accumulatedOffers) :
        LET item == accumulatedOffers[i]
        IN  item.votes = IF item.id \in DOMAIN votesCache
                          THEN votesCache[item.id]
                          ELSE votesIn(fixture, item.id)

\* C27 witness: the first offer of page 1 was voted on after page 0 was fetched and
\* before page 1 was merged; page 1 is merged now and the offer carries the
\* service's cached total, which is not the file's.
C27_Witness ==
    /\ lastVote.offerId = "k"
    /\ ~lastVote.before.loaded
    /\ tally("k").loaded
    /\ "k" \in DOMAIN votesCache
    /\ tally("k").votes = votesCache["k"]
    /\ votesCache["k"] # votesIn(fixture, "k")

\* C26: against OffersApiService over a file of N offers with distinct ids, with
\* no fetch failing and loadNextPage() called whenever the store is idle, the pages
\* 0, 1, 2, ... are asked for once each in this order with page size 10, every
\* fetch completes, and in the end hasMore() is false for good and the accumulated
\* offers are the N offers of the file, each once (N = 0, 10 and 20 included).
C26_PagingReachesTheEnd ==
    /\ [](\A i \in 1 .. Len(getOffersLog) :
            getOffersLog[i] = [page |-> i - 1, pageSize |-> 10])
    /\ (loading ~> ~loading)
    /\ <>[](/\ offersResource.status = "resolved"
            /\ ~hasMore
            /\ Len(accumulatedOffers) = Len(fixture)
            /\ \A i \in 1 .. Len(fixture) : accumulatedOffers[i].id = fixture[i].id)

\* C26 witness: both pages of a file of 20 offers are merged and hasMore() is false
C26_Witness ==
    /\ Len(fixture) = 20
    /\ currentPage = 1
    /\ offersResource.status = "resolved"
    /\ ~hasMore
    /\ Len(accumulatedOffers) = 20
    /\ idsOf(accumulatedOffers) = idsOf(fixture)

\* The step is a call of this method of the page or store (the clock stands still)
called(name) == lastOp'.name = name /\ now' = now

\* C25: the purchase flow of the details page. confirmPurchase() sets purchaseSuccess
\* at once and sets a timer for 2 seconds later, and does nothing else; when the
\* timer runs, 2 seconds after the call, both flags are false and
\* router.navigate(['/']) is called; the clock does not pass a timer that is due;
\* closePurchaseModal() leaves both flags false; onUpvote()/onDownvote() call the
\* store, with the route id, only when the store has the offer of the route id,
\* and otherwise change nothing.
C25_PurchaseFlow ==
    /\ [](\A i \in 1 .. Len(timers) :
            timers[i].due = timers[i].set + 2 /\ now <= timers[i].due)
    /\ [][/\ called("confirmPurchase") =>
                /\ purchaseSuccess'
                /\ showPurchaseModal' = showPurchaseModal
                /\ navigateLog' = navigateLog
                /\ timers' = Append(timers, [set |-> now, due |-> now + 2])
          /\ called("setTimeout callback") =>
                /\ timers # << >>
                /\ now = Head(timers).set + 2
                /\ timers' = Tail(timers)
                /\ ~showPurchaseModal'
                /\ ~purchaseSuccess'
                /\ navigateLog' = Append(navigateLog, [commands |-> << "/" >>, at |-> now])
          /\ called("closePurchaseModal") =>
                /\ ~showPurchaseModal'
                /\ ~purchaseSuccess'
                /\ navigateLog' = navigateLog
          /\ (called("upvote") \/ called("downvote")) =>
                /\ routeId # ""
                /\ getOfferById(routeId) # undefined
                /\ lastOp'.arg = routeId
                /\ updateVoteCalls' = updateVoteCalls + 1
          /\ (called("onUpvote") \/ called("onDownvote")) =>
                /\ routeId = "" \/ getOfferById(routeId) = undefined
                /\ UNCHANGED <<updateVoteCalls, userVotesSignal, localStorage,
                               accumulatedOffers, pendingVotes>>
       ]_vars

\* C25 witness: the timer of a confirmPurchase() made at time 0 has run at time 2;
\* the modal is closed and one navigation to '/' was issued.
C25_Witness ==
    /\ lastOp.name = "setTimeout callback"
    /\ now = 2
    /\ navigateLog = << [commands |-> << "/" >>, at |-> 2] >>
    /\ ~showPurchaseModal
    /\ ~purchaseSuccess
    /\ timers = << >>

====
